---------------------------- MODULE Spec2Model ----------------------------
(***************************************************************************)
(* A model of the plot-tropomi rendering pipeline.                         *)
(*                                                                         *)
(*   src/plot_tropomi.py  -- the current script: period-keyed              *)
(*                           configuration, thresholding, a global and a   *)
(*                           regional (Ukraine) renderer.                  *)
(*   src/plot-tropomi.py  -- the earlier script: flat configuration, one   *)
(*                           global renderer.                              *)
(*                                                                         *)
(* One behaviour is one run of main().  pc is the position in the script;  *)
(* every Python statement group that can raise is one action.  An          *)
(* uncaught exception ends the run in pc = "crashed" with its class in     *)
(* error.                                                                  *)
(***************************************************************************)
EXTENDS Integers, Sequences, FiniteSets, TLC

VARIABLES
    script,          \* which of the two scripts runs
    options,         \* argparse result: var, date, timeperiod
    pc,              \* position in the script
    conf,            \* main's local conf: <<>> while unbound, <<doc>> once bound
    data,            \* read_file's local data: <<>> while unbound, <<product>>
    infile,          \* <<>> or <<path>>
    figname,         \* <<>> or <<path>>
    obs_data,        \* <<>> or <<array>>
    description,     \* <<>> or <<text>>
    unit,            \* <<>> or <<text>>
    latitudes,       \* <<>> or <<values>>; rebound by the city list (line 229)
    longitudes,      \* <<>> or <<values>>; rebound by the city list (line 230)
    datetime_start,  \* <<>> or <<timestamp>>
    datetime_stop,   \* <<>> or <<timestamp>>
    images,          \* logo images loaded by image.imread
    country_idx,     \* index of the border loop (line 184)
    city_names,      \* names read from the city list
    records,         \* <<>> or <<road records of Reader(roads_path).records()>>
    calls,           \* the functions main has called, in order
    fig,             \* the drawing calls issued on the figure, in order
    opened,          \* overlay sources read successfully, in order
    files,           \* image files written by fig.savefig
    log,             \* logger.error messages, in order
    error            \* class of the uncaught exception; "" while none

vars == << script, options, pc, conf, data, infile, figname, obs_data,
           description, unit, latitudes, longitudes, datetime_start,
           datetime_stop, images, country_idx, city_names, records, calls,
           fig, opened, files, log, error >>

-----------------------------------------------------------------------------
(* Bounds of the model *)

MaxDim == 2          \* rows and columns of an observation grid
MaxRoads == 2        \* road records in the road source
MaxCities == 2       \* rows of the city list
MaxOffsetDays == 2   \* contiguous range of whole-day offsets
MaxCells == 3        \* cells of a grid in the thresholding runs

-----------------------------------------------------------------------------
(* Generic helpers *)

Unbound == << >>

SeqsUpTo(S, n) == UNION { [1..k -> S] : k \in 0..n }

\* Python's `needle in haystack` for str: a contiguous substring test.
\* Strings are modelled as sequences of one-character strings.
Contains(haystack, needle) ==
    \E k \in 0..(Len(haystack) - Len(needle)) :
        SubSeq(haystack, k + 1, k + Len(needle)) = needle

\* dict[key]: the value, or KeyError when the key is absent.
HasKey(d, k) == k \in DOMAIN d

-----------------------------------------------------------------------------
(* Time codec: dayssince_to_timestamp                                      *)
(*                                                                         *)
(* A days-since value d (a float) is modelled exactly as                   *)
(*   d = days + (secs + sub / 10^7) / 86400                                *)
(* with 0 <= secs < 86400 and 0 <= sub < 10^7 (tenths of a microsecond).   *)

IsLeap(y) == (y % 4 = 0) /\ ((y % 100 # 0) \/ (y % 400 = 0))

\* datetime._DAYS_BEFORE_MONTH for a non-leap year
DaysBeforeMonthCommon(m) ==
    << 0, 31, 59, 90, 120, 151, 181, 212, 243, 273, 304, 334 >>[m]

DaysBeforeMonth(y, m) ==
    DaysBeforeMonthCommon(m) + (IF m > 2 /\ IsLeap(y) THEN 1 ELSE 0)

DaysBeforeYear(y) ==
    (y - 1) * 365 + ((y - 1) \div 4) - ((y - 1) \div 100) + ((y - 1) \div 400)

\* datetime._ymd2ord
Ymd2ord(y, m, d) == DaysBeforeYear(y) + DaysBeforeMonth(y, m) + d

\* datetime._ord2ymd
Ord2ymd(ordinal) ==
    LET n0   == ordinal - 1
        n400 == n0 \div 146097
        r400 == n0 % 146097
        n100 == r400 \div 36524
        r100 == r400 % 36524
        n4   == r100 \div 1461
        r4   == r100 % 1461
        n1   == r4 \div 365
        n    == r4 % 365
        year == n400 * 400 + 1 + n100 * 100 + n4 * 4 + n1
    IN  IF n1 = 4 \/ n100 = 4
        THEN << year - 1, 12, 31 >>
        ELSE LET leap  == (n1 = 3) /\ (n4 # 24 \/ n100 = 3)
                 guess == (n + 50) \div 32
                 prec  == DaysBeforeMonthCommon(guess)
                            + (IF guess > 2 /\ leap THEN 1 ELSE 0)
                 month == IF prec > n THEN guess - 1 ELSE guess
                 before == DaysBeforeMonthCommon(month)
                            + (IF month > 2 /\ leap THEN 1 ELSE 0)
             IN  << year, month, n - before + 1 >>

\* datetime.datetime.strptime(epochdate, "%Y%m%d"): year, month, day at 00:00
Strptime(epochdate) ==
    [ year |-> epochdate \div 10000,
      month |-> (epochdate \div 100) % 100,
      day |-> epochdate % 100 ]

\* round(x / den) with the round-half-to-even tie-break of datetime.timedelta
RoundHalfEven(num, den) ==
    LET q == num \div den
        r == num % den
    IN  IF 2 * r < den THEN q
        ELSE IF 2 * r > den THEN q + 1
        ELSE IF q % 2 = 0 THEN q ELSE q + 1

\* A timedelta that drops the day carried out of the seconds.
TimedeltaNoDayCarry(dayssince) ==
    LET us    == RoundHalfEven(dayssince.sub, 10)
        secs  == dayssince.secs + (us \div 1000000)
    IN  [ days |-> dayssince.days,
          seconds |-> secs % 86400,
          microseconds |-> us % 1000000 ]

\* datetime.timedelta(days=dayssince): normalised days, seconds,
\* microseconds; fractional microseconds are rounded half-to-even and a
\* full second or day is carried.
Timedelta(dayssince) ==
    LET us    == RoundHalfEven(dayssince.sub, 10)
        secs  == dayssince.secs + (us \div 1000000)
    IN  [ days |-> dayssince.days + (secs \div 86400),
          seconds |-> secs % 86400,
          microseconds |-> us % 1000000 ]

\* strftime('%Y-%m-%d %H:%M'): the seconds and microseconds are dropped.
\* The text "YYYY-MM-DD HH:MM" is modelled by its five numeric fields.
Strftime(ymd, seconds) ==
    << ymd[1], ymd[2], ymd[3], seconds \div 3600, (seconds % 3600) \div 60 >>

dayssince_to_timestamp(epochdate, dayssince) ==
    LET e  == Strptime(epochdate)
        td == Timedelta(dayssince)
        o  == Ymd2ord(e.year, e.month, e.day) + td.days
    IN  Strftime(Ord2ymd(o), td.seconds)


-----------------------------------------------------------------------------
(* Values of the model *)

\* np.nan, as a sentinel outside the range of raw observation values.
\* Every comparison with it is false, as for an IEEE NaN.
NaN == -999

\* The first script (period-keyed configuration) and the earlier one.
NewScript == "plot_tropomi.py"
OldScript == "plot-tropomi.py"

Ukraine == << "u", "k", "r", "a", "i", "n", "e" >>

\* Variable ids (--var), as character sequences.
VarSo2Nrti    == << "s", "o", "2", "-", "n", "r", "t", "i" >>
VarSo2Ukraine == << "s", "o", "2", "-" >> \o Ukraine
VarUkraineNo2 == Ukraine \o << "-", "n", "o", "2" >>
VarSo2Ukrain  == << "s", "o", "2", "-", "u", "k", "r", "a", "i", "n" >>
VarSo2UKRAINE == << "s", "o", "2", "-", "U", "K", "R", "A", "I", "N", "E" >>

VarIds == { VarSo2Nrti, VarSo2Ukraine, VarUkraineNo2, VarSo2Ukrain, VarSo2UKRAINE }

TimePeriods == { "day", "month" }

\* An optional value: << >> for Python's None / an absent key, << v >> else.
Some(v) == << v >>
None == << >>

(* Configuration documents: conf/<var>.json after json.load *)

InputBlock(dir, epoch) ==
    [ path |-> dir, filename |-> "l3_{date}.nc", epochdate |-> epoch,
      harp_var_name |-> "SO2_column" ]

OutputBlock(dir) == [ path |-> dir, filename |-> "plot_{date}.png" ]

PlotBlock(min_value) ==
    IF min_value = None
    THEN [ vmin |-> 0, vmax |-> 4, colormap |-> "batlow" ]
    ELSE [ vmin |-> 0, vmax |-> 4, colormap |-> "batlow",
           min_value |-> min_value[1] ]

\* A document with a period axis: every section is keyed by day and month.
KeyedDoc(minDay, minMonth) ==
    [ input  |-> [ day |-> InputBlock("in/day", 20000101),
                   month |-> InputBlock("in/month", 20100101) ],
      output |-> [ day |-> OutputBlock("out/day"),
                   month |-> OutputBlock("out/month") ],
      plot   |-> [ day |-> PlotBlock(minDay), month |-> PlotBlock(minMonth) ] ]

\* A document with a period axis that holds the day period only.
DayOnlyDoc ==
    [ input  |-> [ day |-> InputBlock("in/day", 20000101) ],
      output |-> [ day |-> OutputBlock("out/day") ],
      plot   |-> [ day |-> PlotBlock(None) ] ]

\* A document without a period axis: every section is the flat block.
FlatDoc(min_value) ==
    [ input  |-> InputBlock("in/flat", 20000101),
      output |-> OutputBlock("out/flat"),
      plot   |-> PlotBlock(min_value) ]

\* A document that parses but lacks the output section.
NoOutputDoc ==
    [ input  |-> [ day |-> InputBlock("in/day", 20000101),
                   month |-> InputBlock("in/month", 20100101) ],
      plot   |-> [ day |-> PlotBlock(None), month |-> PlotBlock(None) ] ]

ConfigDocs ==
    { KeyedDoc(None, Some(1)), FlatDoc(None), FlatDoc(Some(1)), DayOnlyDoc,
      NoOutputDoc }

\* Why open()/json.load of the configuration file can fail.
ConfigFailures == { "FileNotFoundError", "JSONDecodeError" }

(* Observation arrays: a shape and the cells in row-major order *)

RECURSIVE ProductOf(_)
ProductOf(l) == IF Len(l) = 0 THEN 1 ELSE l[1] * ProductOf(Tail(l))

Array(shape, cells) == [ shape |-> shape, cells |-> cells ]

\* ndarray.squeeze(): every axis of length one is removed.
Squeeze(a) == [ a EXCEPT !.shape = SelectSeq(a.shape, LAMBDA n : n # 1) ]

\* obs_data[0,:,:]: the first plane of a 3-D array; IndexError otherwise.
CanIndexFirstPlane(a) == Len(a.shape) = 3 /\ a.shape[1] >= 1

FirstPlane(a) ==
    Array(<< a.shape[2], a.shape[3] >>,
          SubSeq(a.cells, 1, a.shape[2] * a.shape[3]))

\* v < t on floats: false whenever v is NaN.
Lt(v, t) == v # NaN /\ v < t

\* obs_data[obs_data < min_value] = np.nan
MaskBelow(a, min_value) ==
    [ a EXCEPT !.cells =
        [ k \in DOMAIN a.cells |->
            IF Lt(a.cells[k], min_value) THEN NaN ELSE a.cells[k] ] ]

\* `if min_value:` -- None and 0 are both falsy.
Truthy(min_value) == min_value # None /\ min_value[1] # 0

\* Lines 59-62: the array after the optional thresholding.
ApplyThreshold(a, plot_conf) ==
    LET min_value == IF HasKey(plot_conf, "min_value")
                     THEN Some(plot_conf.min_value) ELSE None
    IN  IF Truthy(min_value) THEN MaskBelow(a, min_value[1]) ELSE a

(* Products of the data provider: harp.import_product(infile) *)

Days(d, s, u) == [ days |-> d, secs |-> s, sub |-> u ]

LatValues(n) == [ k \in 1..n |-> 43 + k ]
LonValues(m) == [ k \in 1..m |-> 20 + k ]

HarpProduct(obs, n, m, t0, t1) ==
    [ latitude |-> LatValues(n), longitude |-> LonValues(m),
      obs |-> obs, description |-> "SO2 vertical column", unit |-> "DU",
      datetime_start |-> t0, datetime_stop |-> t1 ]

\* The cells of the pipeline's sample grids: a raw value per cell index.
SampleCell(k) == << -1, 0, NaN, 1, 2, -2, 3, 0, 1 >>[((k - 1) % 9) + 1]

SampleShapes ==
    { << n, m >> : n \in 1..MaxDim, m \in 1..MaxDim }
      \cup { << 1, n, m >> : n \in 1..MaxDim, m \in 1..MaxDim }

SampleProducts ==
    { HarpProduct(Array(sh, [ k \in 1..ProductOf(sh) |-> SampleCell(k) ]),
                  sh[Len(sh) - 1], sh[Len(sh)],
                  Days(8341, 169, 5629998), Days(8341, 86222, 0)) :
        sh \in SampleShapes }

-----------------------------------------------------------------------------
(* Configuration lookups *)

\* A lookup with the period fixed to "day", whatever --timeperiod says.
ProfileBlockOfDay(doc, section, timeperiod) ==
    IF HasKey(doc, section) /\ HasKey(doc[section], "day")
    THEN Some(doc[section]["day"])
    ELSE None

\* conf[section][timeperiod] of plot_tropomi.py: the block nested under the
\* time-period key; None stands for the KeyError of a missing key.
ProfileBlock(doc, section, timeperiod) ==
    IF HasKey(doc, section) /\ HasKey(doc[section], timeperiod)
    THEN Some(doc[section][timeperiod])
    ELSE None

\* conf[section] of plot-tropomi.py: the flat block, whatever it holds.
FlatBlock(doc, section) ==
    IF HasKey(doc, section) THEN Some(doc[section]) ELSE None

\* block[k] for every k of keys; FALSE stands for a KeyError.
HasKeys(block, keys) == block # None /\ keys \subseteq DOMAIN block[1]

\* f'{path}/{filename.format(date = options.date)}'
FormatPath(block, date) ==
    [ dir |-> block.path, name |-> block.filename, date |-> date ]

-----------------------------------------------------------------------------
(* The initial state: the interpreter has parsed the command line and      *)
(* is about to call main().                                                *)

Blank ==
    /\ conf = Unbound /\ data = Unbound
    /\ infile = Unbound /\ figname = Unbound
    /\ obs_data = Unbound /\ description = Unbound /\ unit = Unbound
    /\ latitudes = Unbound /\ longitudes = Unbound
    /\ datetime_start = Unbound /\ datetime_stop = Unbound
    /\ images = {} /\ country_idx = 1 /\ city_names = Unbound
    /\ records = Unbound /\ calls = << >> /\ fig = << >>
    /\ opened = << >> /\ files = {} /\ log = << >> /\ error = ""

Init ==
    /\ script \in { NewScript, OldScript }
    /\ options \in
         IF script = NewScript
         THEN [ var : VarIds, date : { "20230209" }, timeperiod : TimePeriods ]
         ELSE [ var : VarIds, date : { "20221102" }, timeperiod : { "" } ]
    /\ pc = "main_config"
    /\ Blank

\* An uncaught exception: the interpreter prints the traceback and exits.
Raise(exc) ==
    /\ pc' = "crashed"
    /\ error' = exc
    /\ UNCHANGED << script, options, conf, data, infile, figname, obs_data,
                    description, unit, latitudes, longitudes, datetime_start,
                    datetime_stop, images, country_idx, city_names, records,
                    calls, fig, opened, files, log >>

-----------------------------------------------------------------------------
(* main() of plot_tropomi.py, lines 290-305 and 308 *)

\* Lines 290-298: the configuration is read inside try/except; the handler
\* logs two errors and returns to the statement after the try.
main_ReadConfigFrom(documents) ==
    /\ script = NewScript
    /\ pc = "main_config"
    /\ \E outcome \in { Some(doc) : doc \in documents }
                        \cup { << "raise", e >> : e \in ConfigFailures } :
         IF Len(outcome) = 1
         THEN conf' = outcome /\ log' = log
         ELSE /\ conf' = conf
              /\ log' = log \o << "Error while reading the configuration file",
                                  outcome[2] >>
    /\ pc' = "main_infile"
    /\ UNCHANGED << script, options, data, infile, figname, obs_data,
                    description, unit, latitudes, longitudes, datetime_start,
                    datetime_stop, images, country_idx, city_names, records,
                    calls, fig, opened, files, error >>

main_ReadConfig == main_ReadConfigFrom(ConfigDocs)

\* Lines 301-302: the input path from conf["input"][timeperiod].
main_InFile ==
    /\ script = NewScript
    /\ pc = "main_infile"
    /\ IF conf = Unbound THEN Raise("UnboundLocalError")
       ELSE LET block == ProfileBlock(conf[1], "input", options.timeperiod)
            IN  IF ~HasKeys(block, { "path", "filename" }) THEN Raise("KeyError")
                ELSE /\ infile' = Some(FormatPath(block[1], options.date))
                     /\ calls' = Append(calls, "read_file")
                     /\ pc' = "read_file_import"
                     /\ UNCHANGED << script, options, conf, data, figname, obs_data,
                                     description, unit, latitudes, longitudes, datetime_start,
                                     datetime_stop, images, country_idx, city_names, records,
                                     fig, opened, files, log, error >>

(* read_file() of plot_tropomi.py *)

\* Lines 44-50: the product is imported inside try/except; the handler logs
\* two errors and returns to the statement after the try.
read_file_ImportFrom(products) ==
    /\ script = NewScript
    /\ pc = "read_file_import"
    /\ \E outcome \in { Some(p) : p \in products }
                        \cup { << "raise", "harp.CLibraryError" >> } :
         IF Len(outcome) = 1
         THEN data' = outcome /\ log' = log
         ELSE /\ data' = data
              /\ log' = log \o << "Error while reading the data file",
                                  outcome[2] >>
    /\ pc' = "read_file_extract"
    /\ UNCHANGED << script, options, conf, infile, figname, obs_data,
                    description, unit, latitudes, longitudes, datetime_start,
                    datetime_stop, images, country_idx, city_names, records,
                    calls, fig, opened, files, error >>

read_file_Import == read_file_ImportFrom(SampleProducts)

\* Lines 52-56: the observation variable, squeezed, its description and unit.
read_file_Extract ==
    /\ script = NewScript
    /\ pc = "read_file_extract"
    /\ IF data = Unbound THEN Raise("UnboundLocalError")
       ELSE LET block == ProfileBlock(conf[1], "input", options.timeperiod)
            IN  IF ~HasKeys(block, { "harp_var_name" }) THEN Raise("KeyError")
                ELSE /\ obs_data' = Some(Squeeze(data[1].obs))
                     /\ description' = Some(data[1].description)
                     /\ unit' = Some(data[1].unit)
                     /\ pc' = "read_file_threshold"
                     /\ UNCHANGED << script, options, conf, data, infile, figname, latitudes,
                                     longitudes, datetime_start, datetime_stop, images,
                                     country_idx, city_names, records, calls, fig, opened,
                                     files, log, error >>

\* Lines 58-62: values under plot.min_value are marked np.nan.
read_file_Threshold ==
    /\ script = NewScript
    /\ pc = "read_file_threshold"
    /\ LET plot_conf == ProfileBlock(conf[1], "plot", options.timeperiod)
       IN  IF plot_conf = None THEN Raise("KeyError")
           ELSE /\ obs_data' = Some(ApplyThreshold(obs_data[1], plot_conf[1]))
                /\ pc' = "read_file_times"
                /\ UNCHANGED << script, options, conf, data, infile, figname, description,
                                unit, latitudes, longitudes, datetime_start, datetime_stop,
                                images, country_idx, city_names, records, calls, fig,
                                opened, files, log, error >>

\* Lines 64-73: latitudes, longitudes and the two boundary timestamps.
read_file_Times ==
    /\ script = NewScript
    /\ pc = "read_file_times"
    /\ LET block == ProfileBlock(conf[1], "input", options.timeperiod)
       IN  IF ~HasKeys(block, { "epochdate" }) THEN Raise("KeyError")
           ELSE /\ latitudes' = Some(data[1].latitude)
                /\ longitudes' = Some(data[1].longitude)
                /\ datetime_start' =
                     Some(dayssince_to_timestamp(block[1].epochdate,
                                                 data[1].datetime_start))
                /\ datetime_stop' =
                     Some(dayssince_to_timestamp(block[1].epochdate,
                                                 data[1].datetime_stop))
                /\ pc' = "main_logos"
                /\ UNCHANGED << script, options, conf, data, infile, figname, obs_data,
                                description, unit, images, country_idx, city_names,
                                records, calls, fig, opened, files, log, error >>

\* Lines 304-305: both logo images are read; a missing image raises.
main_Logos ==
    /\ script = NewScript
    /\ pc = "main_logos"
    /\ \E readable \in BOOLEAN :
         IF readable
         THEN /\ images' = { "fmi_logo.png", "logos.png" }
              /\ pc' = "main_figname"
              /\ UNCHANGED << script, options, conf, data, infile, figname, obs_data,
                              description, unit, latitudes, longitudes, datetime_start,
                              datetime_stop, country_idx, city_names, records, calls,
                              fig, opened, files, log, error >>
         ELSE Raise("FileNotFoundError")

\* Line 308: the output path from conf["output"][timeperiod].
main_FigName ==
    /\ script = NewScript
    /\ pc = "main_figname"
    /\ LET block == ProfileBlock(conf[1], "output", options.timeperiod)
       IN  IF ~HasKeys(block, { "path", "filename" }) THEN Raise("KeyError")
           ELSE /\ figname' = Some(FormatPath(block[1], options.date))
                /\ pc' = "main_render"
                /\ UNCHANGED << script, options, conf, data, infile, obs_data, description,
                                unit, latitudes, longitudes, datetime_start, datetime_stop,
                                images, country_idx, city_names, records, calls, fig,
                                opened, files, log, error >>

\* A selection that compares the whole id instead of searching it.
MainRendererByEquality(var) ==
    IF var # Ukraine THEN "plot_data" ELSE "plot_data_ukraine"

\* Line 309: `not "ukraine" in options.var` selects the renderer.
MainRenderer(var) ==
    IF ~Contains(var, Ukraine) THEN "plot_data" ELSE "plot_data_ukraine"

\* Lines 309-312: exactly one renderer is called.
main_Render ==
    /\ script = NewScript
    /\ pc = "main_render"
    /\ calls' = Append(calls, MainRenderer(options.var))
    /\ pc' = IF MainRenderer(options.var) = "plot_data"
             THEN "plot_data_draw" ELSE "ukraine_extent"
    /\ UNCHANGED << script, options, conf, data, infile, figname, obs_data,
                    description, unit, latitudes, longitudes, datetime_start,
                    datetime_stop, images, country_idx, city_names, records,
                    fig, opened, files, log, error >>

-----------------------------------------------------------------------------
(* Drawing calls.  A call on the figure is a record                        *)
(*   [ layer, op, arg ]                                                    *)
(* Lengths and widths with a decimal are held in tenths.                   *)

Call(layer, op, arg) == [ layer |-> layer, op |-> op, arg |-> arg ]

\* pcolormesh accepts a 2-D C whose shape matches the 1-D coordinates.
MeshOk(lon, lat, obs) == obs.shape = << Len(lat), Len(lon) >>

Pcolormesh(lon, lat, obs, plot_conf) ==
    Call("mesh", "pcolormesh",
         [ x |-> lon, y |-> lat, c |-> obs, vmin |-> plot_conf.vmin,
           vmax |-> plot_conf.vmax, cmap |-> plot_conf.colormap ])

\* Title, colorbar and the logo axes (lines 130-146 and 264-280).
Furniture(desc, un, t0, t1, logoFiles) ==
    << Call("title", "set_title",
            [ description |-> desc, start |-> t0, stop |-> t1 ]),
       Call("colorbar", "colorbar", [ description |-> desc, unit |-> un ]) >>
    \o [ k \in 1..Len(logoFiles) |->
           Call("logos", "imshow", [ image |-> logoFiles[k] ]) ]

\* fig.savefig(figname, bbox_inches='tight'): the file is written, or the
\* destination cannot be written and savefig raises.
SaveFigure(donePc) ==
    \E writable \in BOOLEAN :
        IF writable
        THEN /\ fig' = Append(fig, Call("save", "savefig", [ path |-> figname[1] ]))
             /\ files' = files \cup { figname[1] }
             /\ pc' = donePc
             /\ UNCHANGED << script, options, conf, data, infile, figname, obs_data,
                             description, unit, latitudes, longitudes, datetime_start,
                             datetime_stop, images, country_idx, city_names, records,
                             calls, opened, log, error >>
        ELSE Raise("FileNotFoundError")

-----------------------------------------------------------------------------
(* plot_data() of plot_tropomi.py: the global renderer *)

\* Lines 112-146.
plot_data_Draw ==
    /\ script = NewScript
    /\ pc = "plot_data_draw"
    /\ LET plot_conf == ProfileBlock(conf[1], "plot", options.timeperiod)
       IN  IF ~HasKeys(plot_conf, { "vmin", "vmax", "colormap" })
           THEN Raise("KeyError")
           ELSE IF ~MeshOk(longitudes[1], latitudes[1], obs_data[1])
           THEN Raise("ValueError")
           ELSE /\ fig' = << Call("extent", "set_extent",
                                  [ extent |-> << -1800, 1800, -900, 900 >> ]),
                             Pcolormesh(longitudes[1], latitudes[1], obs_data[1],
                                        plot_conf[1]),
                             Call("coastline", "coastlines", [ linewidth |-> 10 ]),
                             Call("gridlines", "gridlines",
                                  [ draw_labels |-> FALSE, right_labels |-> TRUE,
                                    top_labels |-> TRUE ]) >>
                           \o Furniture(description[1], unit[1], datetime_start[1],
                                        datetime_stop[1],
                                        << "logos.png", "fmi_logo.png" >>)
                /\ pc' = "plot_data_save"
                /\ UNCHANGED << script, options, conf, data, infile, figname, obs_data,
                                description, unit, latitudes, longitudes, datetime_start,
                                datetime_stop, images, country_idx, city_names, records,
                                calls, opened, files, log, error >>

\* Lines 148-150.
plot_data_Save ==
    /\ script = NewScript
    /\ pc = "plot_data_save"
    /\ SaveFigure("done")

-----------------------------------------------------------------------------
(* plot_data_ukraine() of plot_tropomi.py: the regional renderer *)

\* Line 184: the border sources, in drawing order.
Countries ==
    << "Belarus", "Moldova", "Romania", "Slovakia", "Hungary", "Poland",
       "Russia", "Ukraine" >>

\* Lines 172-181: plot parameters, the figure and the map extent.
ukraine_Extent ==
    /\ script = NewScript
    /\ pc = "ukraine_extent"
    /\ LET plot_conf == ProfileBlock(conf[1], "plot", options.timeperiod)
       IN  IF ~HasKeys(plot_conf, { "vmin", "vmax", "colormap" })
           THEN Raise("KeyError")
           ELSE /\ fig' = << Call("extent", "set_extent",
                                  [ extent |-> << 210, 411, 440, 535 >> ]) >>
                /\ country_idx' = 1
                /\ pc' = "ukraine_border"
                /\ UNCHANGED << script, options, conf, data, infile, figname, obs_data,
                                description, unit, latitudes, longitudes, datetime_start,
                                datetime_stop, images, city_names, records, calls, opened,
                                files, log, error >>

\* A border reader that swallows the failure of open() and goes on with no
\* geometry, the way main's try/except does.
ReadBorderSwallowing(country, readable) ==
    [ raised |-> "", geometries |-> IF readable THEN << country >> ELSE << >> ]

\* Lines 186-191: open and parse <country>_border.geojson; open() raises
\* when the file cannot be read and nothing catches it.
ReadBorder(country, readable) ==
    IF readable
    THEN [ raised |-> "", geometries |-> << country >> ]
    ELSE [ raised |-> "FileNotFoundError", geometries |-> << >> ]

\* Lines 193-205: the focal country has its own stroke.
BorderFeature(country, geometries) ==
    Call("border", "add_feature",
         IF country = "Ukraine"
         THEN [ geometries |-> geometries, edgecolor |-> "black",
                facecolor |-> "none", linewidth |-> 25 ]
         ELSE [ geometries |-> geometries, edgecolor |-> "gray",
                facecolor |-> "none", linewidth |-> 10 ])

\* Lines 184-208: one iteration of the border loop.
ukraine_Border ==
    /\ script = NewScript
    /\ pc = "ukraine_border"
    /\ \E readable \in BOOLEAN :
         LET country == Countries[country_idx]
             r == ReadBorder(country, readable)
         IN  IF r.raised # "" THEN Raise(r.raised)
             ELSE /\ fig' = Append(fig, BorderFeature(country, r.geometries))
                  /\ opened' = IF readable THEN Append(opened, country) ELSE opened
                  /\ country_idx' = country_idx + 1
                  /\ pc' = IF country_idx = Len(Countries)
                           THEN "ukraine_roads" ELSE "ukraine_border"
                  /\ UNCHANGED << script, options, conf, data, infile, figname, obs_data,
                                  description, unit, latitudes, longitudes, datetime_start,
                                  datetime_stop, images, city_names, records, calls, files,
                                  log, error >>

\* A road filter that also drops the records with no type attribute.
DrawsRoadTypedOnly(attributes) ==
    HasKey(attributes, "type") /\ attributes.type # "Ferry Route"

\* Lines 215-216: record.attributes.get('type') != 'Ferry Route'
DrawsRoad(attributes) ==
    LET road_type == IF HasKey(attributes, "type")
                     THEN Some(attributes.type) ELSE None
    IN  road_type # Some("Ferry Route")

\* Lines 214-218: one add_geometries call per record that is kept; the
\* geometry of a record is named by its position in the source.
RoadLayer(recs) ==
    LET kept == SelectSeq([ k \in 1..Len(recs) |-> k ],
                          LAMBDA k : DrawsRoad(recs[k]))
    IN  [ j \in 1..Len(kept) |->
            Call("roads", "add_geometries",
                 [ geometry |-> kept[j], edgecolor |-> "lightgray",
                   linewidth |-> 6, facecolor |-> "none" ]) ]

\* Attributes of a road record; the last one has no type attribute.
RoadAttributes ==
    { [ type |-> "Ferry Route" ], [ type |-> "Major Highway" ],
      [ type |-> "ferry route" ], [ name |-> "unnamed" ] }

SampleRoads ==
    { << >>, << [ type |-> "Major Highway" ], [ type |-> "Ferry Route" ] >> }

\* Lines 210-218: the road source is read and drawn.
ukraine_RoadsFrom(sources) ==
    /\ script = NewScript
    /\ pc = "ukraine_roads"
    /\ \E outcome \in { Some(recs) : recs \in sources }
                        \cup { << "raise", "OSError" >> } :
         IF Len(outcome) = 2 THEN Raise(outcome[2])
         ELSE /\ records' = outcome
              /\ fig' = fig \o RoadLayer(outcome[1])
              /\ opened' = Append(opened, "roads")
              /\ pc' = "ukraine_mesh"
              /\ UNCHANGED << script, options, conf, data, infile, figname, obs_data,
                              description, unit, latitudes, longitudes, datetime_start,
                              datetime_stop, images, country_idx, city_names, calls,
                              files, log, error >>

ukraine_Roads == ukraine_RoadsFrom(SampleRoads)

\* The coastline issued before the mesh.
CoastlineThenMesh(lon, lat, obs, plot_conf) ==
    << Call("coastline", "add_feature", [ linewidth |-> 10 ]),
       Pcolormesh(lon, lat, obs, plot_conf) >>

\* Lines 220-224: the observation mesh, then the coastline.
MeshAndCoastline(lon, lat, obs, plot_conf) ==
    << Pcolormesh(lon, lat, obs, plot_conf),
       Call("coastline", "add_feature", [ linewidth |-> 10 ]) >>

ukraine_Mesh ==
    /\ script = NewScript
    /\ pc = "ukraine_mesh"
    /\ IF ~MeshOk(longitudes[1], latitudes[1], obs_data[1])
       THEN Raise("ValueError")
       ELSE /\ fig' = fig \o MeshAndCoastline(
                         longitudes[1], latitudes[1], obs_data[1],
                         ProfileBlock(conf[1], "plot", options.timeperiod)[1])
            /\ pc' = "ukraine_cities"
            /\ UNCHANGED << script, options, conf, data, infile, figname, obs_data,
                            description, unit, latitudes, longitudes, datetime_start,
                            datetime_stop, images, country_idx, city_names, records,
                            calls, opened, files, log, error >>

\* Rows of ukraine_cities.csv after the header: name, latitude, longitude.
CityNames == { "Kyiv", "Zaporizhzhia", "Lviv", "kyiv" }

CityRow(name, k) == [ name |-> name, lat |-> 440 + 10 * k, lon |-> 210 + 20 * k ]

CityRows(names) == [ k \in 1..Len(names) |-> CityRow(names[k], k) ]

SampleCities == { CityRows(<< >>), CityRows(<< "Kyiv", "Lviv" >>) }

\* Lines 226-238: the city list is read; the parameters latitudes and
\* longitudes are rebound to the city coordinates.
ukraine_CitiesFrom(sources) ==
    /\ script = NewScript
    /\ pc = "ukraine_cities"
    /\ \E outcome \in { Some(rows) : rows \in sources }
                        \cup { << "raise", "FileNotFoundError" >> } :
         IF Len(outcome) = 2 THEN Raise(outcome[2])
         ELSE LET rows == outcome[1]
              IN  /\ city_names' = Some([ k \in 1..Len(rows) |-> rows[k].name ])
                  /\ latitudes' = Some([ k \in 1..Len(rows) |-> rows[k].lat ])
                  /\ longitudes' = Some([ k \in 1..Len(rows) |-> rows[k].lon ])
                  /\ opened' = Append(opened, "ukraine_cities.csv")
                  /\ pc' = "ukraine_labels"
                  /\ UNCHANGED << script, options, conf, data, infile, figname, obs_data,
                                  description, unit, datetime_start, datetime_stop, images,
                                  country_idx, records, calls, fig, files, log, error >>

ukraine_Cities == ukraine_CitiesFrom(SampleCities)

\* A label placement without the branch for Kyiv.
LabelOffsetNoKyiv(name) ==
    IF name = "Zaporizhzhia" THEN << 10, -20 >> ELSE << 10, 10 >>

\* Lines 247-257: the label offset (xytext) of a city.
LabelOffset(name) ==
    IF name = "Zaporizhzhia" THEN << 10, -20 >>
    ELSE IF name = "Kyiv" THEN << 10, 13 >>
    ELSE << 10, 10 >>

\* Lines 249-257: the font size of a label.
LabelFontsize(name) == IF name = "Kyiv" THEN 20 ELSE 16

\* Lines 240-257: a marker per city, then an annotation per city.
CityLayer(names, lats, lons) ==
    [ k \in 1..Len(lats) |->
        Call("cities", "plot", [ lon |-> lons[k], lat |-> lats[k] ]) ]
    \o [ k \in 1..Len(lats) |->
           Call("cities", "annotate",
                [ text |-> names[k], lon |-> lons[k], lat |-> lats[k],
                  xytext |-> LabelOffset(names[k]),
                  fontsize |-> LabelFontsize(names[k]) ]) ]

ukraine_Labels ==
    /\ script = NewScript
    /\ pc = "ukraine_labels"
    /\ fig' = fig \o CityLayer(city_names[1], latitudes[1], longitudes[1])
    /\ pc' = "ukraine_furniture"
    /\ UNCHANGED << script, options, conf, data, infile, figname, obs_data,
                    description, unit, latitudes, longitudes, datetime_start,
                    datetime_stop, images, country_idx, city_names, records,
                    calls, opened, files, log, error >>

\* Lines 259-262: the graticule, labels off on the right and top edges.
Gridlines ==
    Call("gridlines", "gridlines",
         [ draw_labels |-> TRUE, right_labels |-> FALSE, top_labels |-> FALSE ])

\* Lines 259-280: graticule, title, colorbar, logos.
ukraine_Furniture ==
    /\ script = NewScript
    /\ pc = "ukraine_furniture"
    /\ fig' = fig \o << Gridlines >>
                  \o Furniture(description[1], unit[1], datetime_start[1],
                               datetime_stop[1], << "logos.png", "fmi_logo.png" >>)
    /\ pc' = "ukraine_save"
    /\ UNCHANGED << script, options, conf, data, infile, figname, obs_data,
                    description, unit, latitudes, longitudes, datetime_start,
                    datetime_stop, images, country_idx, city_names, records,
                    calls, opened, files, log, error >>

\* Lines 282-284.
ukraine_Save ==
    /\ script = NewScript
    /\ pc = "ukraine_save"
    /\ SaveFigure("done")

-----------------------------------------------------------------------------
(* plot-tropomi.py: the earlier script.  Flat configuration, no time       *)
(* period, no squeeze and no threshold, one renderer.                      *)

\* main, lines 128-135: as in plot_tropomi.py, the handler logs and goes on.
old_main_ReadConfig ==
    /\ script = OldScript
    /\ pc = "main_config"
    /\ \E outcome \in { Some(doc) : doc \in ConfigDocs }
                        \cup { << "raise", e >> : e \in ConfigFailures } :
         IF Len(outcome) = 1
         THEN conf' = outcome /\ log' = log
         ELSE /\ conf' = conf
              /\ log' = log \o << "Error while reading the configuration file",
                                  outcome[2] >>
    /\ pc' = "old_main_infile"
    /\ UNCHANGED << script, options, data, infile, figname, obs_data,
                    description, unit, latitudes, longitudes, datetime_start,
                    datetime_stop, images, country_idx, city_names, records,
                    calls, fig, opened, files, error >>

\* main, lines 137-139: the input path from conf["input"].
old_main_InFile ==
    /\ script = OldScript
    /\ pc = "old_main_infile"
    /\ IF conf = Unbound THEN Raise("UnboundLocalError")
       ELSE LET block == FlatBlock(conf[1], "input")
            IN  IF ~HasKeys(block, { "path", "filename" }) THEN Raise("KeyError")
                ELSE /\ infile' = Some(FormatPath(block[1], options.date))
                     /\ calls' = Append(calls, "read_file")
                     /\ pc' = "old_read_file_import"
                     /\ UNCHANGED << script, options, conf, data, figname, obs_data,
                                     description, unit, latitudes, longitudes, datetime_start,
                                     datetime_stop, images, country_idx, city_names, records,
                                     fig, opened, files, log, error >>

\* read_file, lines 34-39.
old_read_file_Import ==
    /\ script = OldScript
    /\ pc = "old_read_file_import"
    /\ \E outcome \in { Some(p) : p \in SampleProducts }
                        \cup { << "raise", "harp.CLibraryError" >> } :
         IF Len(outcome) = 1
         THEN data' = outcome /\ log' = log
         ELSE /\ data' = data
              /\ log' = log \o << "Error while reading the data file",
                                  outcome[2] >>
    /\ pc' = "old_read_file_extract"
    /\ UNCHANGED << script, options, conf, infile, figname, obs_data,
                    description, unit, latitudes, longitudes, datetime_start,
                    datetime_stop, images, country_idx, city_names, records,
                    calls, fig, opened, files, error >>

\* read_file, lines 41-55: the observation variable as it is, the
\* coordinates and the two timestamps.
old_read_file_Extract ==
    /\ script = OldScript
    /\ pc = "old_read_file_extract"
    /\ IF data = Unbound THEN Raise("UnboundLocalError")
       ELSE LET block == FlatBlock(conf[1], "input")
            IN  IF ~HasKeys(block, { "harp_var_name", "epochdate" })
                THEN Raise("KeyError")
                ELSE /\ obs_data' = Some(data[1].obs)
                     /\ description' = Some(data[1].description)
                     /\ unit' = Some(data[1].unit)
                     /\ latitudes' = Some(data[1].latitude)
                     /\ longitudes' = Some(data[1].longitude)
                     /\ datetime_start' =
                          Some(dayssince_to_timestamp(block[1].epochdate,
                                                      data[1].datetime_start))
                     /\ datetime_stop' =
                          Some(dayssince_to_timestamp(block[1].epochdate,
                                                      data[1].datetime_stop))
                     /\ pc' = "old_main_logos"
                     /\ UNCHANGED << script, options, conf, data, infile, figname, images,
                                     country_idx, city_names, records, calls, fig, opened,
                                     files, log, error >>

\* main, lines 140-144: the logo, the output path, the call of plot_data.
old_main_FigName ==
    /\ script = OldScript
    /\ pc = "old_main_logos"
    /\ \E readable \in BOOLEAN :
         IF ~readable THEN Raise("FileNotFoundError")
         ELSE LET block == FlatBlock(conf[1], "output")
              IN  IF ~HasKeys(block, { "path", "filename" }) THEN Raise("KeyError")
                  ELSE /\ images' = { "logos.png" }
                       /\ figname' = Some(FormatPath(block[1], options.date))
                       /\ calls' = Append(calls, "plot_data")
                       /\ pc' = "old_plot_data_draw"
                       /\ UNCHANGED << script, options, conf, data, infile, obs_data, description,
                                       unit, latitudes, longitudes, datetime_start, datetime_stop,
                                       country_idx, city_names, records, fig, opened, files, log,
                                       error >>

\* plot_data, lines 93-120: the mesh is drawn from obs_data[0,:,:].
old_plot_data_Draw ==
    /\ script = OldScript
    /\ pc = "old_plot_data_draw"
    /\ LET plot_conf == FlatBlock(conf[1], "plot")
       IN  IF ~HasKeys(plot_conf, { "vmin", "vmax", "colormap" })
           THEN Raise("KeyError")
           ELSE IF ~CanIndexFirstPlane(obs_data[1])
           THEN Raise("IndexError")
           ELSE IF ~MeshOk(longitudes[1], latitudes[1], FirstPlane(obs_data[1]))
           THEN Raise("ValueError")
           ELSE /\ fig' = << Call("extent", "set_extent",
                                  [ extent |-> << -1800, 1800, -900, 900 >> ]),
                             Pcolormesh(longitudes[1], latitudes[1],
                                        FirstPlane(obs_data[1]), plot_conf[1]),
                             Call("coastline", "coastlines", [ linewidth |-> 10 ]),
                             Call("gridlines", "gridlines",
                                  [ draw_labels |-> FALSE, right_labels |-> TRUE,
                                    top_labels |-> TRUE ]) >>
                           \o Furniture(description[1], unit[1], datetime_start[1],
                                        datetime_stop[1], << "logos.png" >>)
                /\ pc' = "old_plot_data_save"
                /\ UNCHANGED << script, options, conf, data, infile, figname, obs_data,
                                description, unit, latitudes, longitudes, datetime_start,
                                datetime_stop, images, country_idx, city_names, records,
                                calls, opened, files, log, error >>

\* plot_data, lines 122-123.
old_plot_data_Save ==
    /\ script = OldScript
    /\ pc = "old_plot_data_save"
    /\ SaveFigure("done")

-----------------------------------------------------------------------------
(* One run of either script *)

Next ==
    \/ main_ReadConfig
    \/ main_InFile
    \/ read_file_Import
    \/ read_file_Extract
    \/ read_file_Threshold
    \/ read_file_Times
    \/ main_Logos
    \/ main_FigName
    \/ main_Render
    \/ plot_data_Draw
    \/ plot_data_Save
    \/ ukraine_Extent
    \/ ukraine_Border
    \/ ukraine_Roads
    \/ ukraine_Mesh
    \/ ukraine_Cities
    \/ ukraine_Labels
    \/ ukraine_Furniture
    \/ ukraine_Save
    \/ old_main_ReadConfig
    \/ old_main_InFile
    \/ old_read_file_Import
    \/ old_read_file_Extract
    \/ old_main_FigName
    \/ old_plot_data_Draw
    \/ old_plot_data_Save

Spec == Init /\ [][Next]_vars

-----------------------------------------------------------------------------
(* Positions of the scripts *)

\* The steps of read_file after the import of the product.
LoadStepsAfterImport ==
    { "read_file_extract", "read_file_threshold", "read_file_times",
      "old_read_file_extract" }

\* The steps of main after the configuration has been read.
StepsAfterConfig ==
    { "main_infile", "old_main_infile", "read_file_import",
      "old_read_file_import", "main_logos", "old_main_logos", "main_figname",
      "main_render" } \cup LoadStepsAfterImport

GlobalRenderSteps ==
    { "plot_data_draw", "plot_data_save", "old_plot_data_draw",
      "old_plot_data_save" }

RegionalRenderSteps ==
    { "ukraine_extent", "ukraine_border", "ukraine_roads", "ukraine_mesh",
      "ukraine_cities", "ukraine_labels", "ukraine_furniture", "ukraine_save" }

RenderSteps == GlobalRenderSteps \cup RegionalRenderSteps

Logged(message) == \E k \in 1..Len(log) : log[k] = message

ImportFailed == Logged("Error while reading the data file")

ConfigReadFailed == Logged("Error while reading the configuration file")

-----------------------------------------------------------------------------
(* C1 *)

\* C1: when the data provider cannot open or parse the source file, the load
\* fails with that data-unavailable failure and the pipeline halts there: no
\* later step of read_file and no renderer is entered, the run ends with the
\* provider's failure, and no image file is written.
C1_ImportFailureHalts ==
    ImportFailed =>
        /\ pc \notin LoadStepsAfterImport \cup RenderSteps
        /\ pc \in { "crashed", "done" } => error = "harp.CLibraryError"
        /\ files = {}

-----------------------------------------------------------------------------
(* C2 *)

\* C2: when the configuration document of the variable id is missing or
\* unreadable, the run ends with that configuration failure: no downstream
\* step (input path, load, render, save) is entered with conf unresolved, and
\* the failure that ends the run is the configuration failure itself.
C2_ConfigFailureSurfaces ==
    ConfigReadFailed =>
        /\ pc \notin StepsAfterConfig \cup RenderSteps
        /\ pc \in { "crashed", "done" } => error \in ConfigFailures
        /\ files = {}

-----------------------------------------------------------------------------
(* C3: runs of the load up to the end of the thresholding, over every grid *)
(* of up to MaxCells cells and every configured threshold.                 *)

RawValues == { -2, -1, 0, 1, NaN }

\* plot.<period>.min_value: absent, negative, zero, positive.
Thresholds == { None, Some(-1), Some(0), Some(1) }

ThresholdDocs == { KeyedDoc(a, b) : a \in Thresholds, b \in Thresholds }

ThresholdProducts ==
    UNION { { HarpProduct(Array(<< 1, 1, k >>, cells), 1, k,
                          Days(8341, 169, 5629998), Days(8341, 86222, 0)) :
                cells \in [1..k -> RawValues] } : k \in 1..MaxCells }

ThresholdInit ==
    /\ script = NewScript
    /\ options \in [ var : { VarSo2Nrti }, date : { "20230209" },
                     timeperiod : TimePeriods ]
    /\ pc = "main_config"
    /\ Blank

ThresholdNext ==
    \/ main_ReadConfigFrom(ThresholdDocs)
    \/ main_InFile
    \/ read_file_ImportFrom(ThresholdProducts)
    \/ read_file_Extract
    \/ read_file_Threshold

SpecThreshold == ThresholdInit /\ [][ThresholdNext]_vars

\* The cells the provider returned and the threshold the profile configures.
RawCells == data[1].obs.cells

ConfiguredThreshold ==
    LET plot_conf == conf[1].plot[options.timeperiod]
    IN  IF HasKey(plot_conf, "min_value") THEN Some(plot_conf.min_value) ELSE None

\* C3: after the thresholding of read_file, for every configured threshold t
\* (zero and negative values included) a cell with a real raw value is the
\* missing marker if and only if its raw value is strictly below t, every
\* other cell keeps its raw value, and with no threshold configured no cell
\* is altered.
C3_MissingIffBelowThreshold ==
    pc = "read_file_times" =>
        LET out == obs_data[1].cells
            t == ConfiguredThreshold
        IN  /\ Len(out) = Len(RawCells)
            /\ \A k \in 1..Len(out) :
                 IF t # None /\ RawCells[k] # NaN
                 THEN /\ (out[k] = NaN) <=> (RawCells[k] < t[1])
                      /\ (out[k] # NaN) => (out[k] = RawCells[k])
                 ELSE out[k] = RawCells[k]

-----------------------------------------------------------------------------
(* C4 *)

RendererCalls ==
    SelectSeq(calls, LAMBDA c : c \in { "plot_data", "plot_data_ukraine" })

RegionalRun == \E k \in 1..Len(calls) : calls[k] = "plot_data_ukraine"

\* Every overlay source of the regional renderer, in reading order.
OverlaySources == Countries \o << "roads", "ukraine_cities.csv" >>

Saved == \E k \in 1..Len(fig) : fig[k].op = "savefig"

\* C4: in a run of plot_data_ukraine the write of the output file is reached
\* only after every border file, the road source and the city list have been
\* read successfully; a run that could not read one of them has aborted with
\* the exception of that read and has written nothing.
C4_SaveOnlyAfterAllSources ==
    RegionalRun =>
        /\ (pc \in { "ukraine_save", "done" } \/ Saved \/ files # {})
             => opened = OverlaySources
        /\ (pc = "crashed" /\ opened # OverlaySources)
             => (files = {} /\ ~Saved)
        /\ opened = SubSeq(OverlaySources, 1, Len(opened))

\* C4 witness: the regional renderer aborted on an unreadable source after
\* some sources had been read, and nothing was written.
C4_Witness ==
    /\ RegionalRun
    /\ pc = "crashed"
    /\ error = "FileNotFoundError"
    /\ Len(opened) >= 3
    /\ opened # OverlaySources
    /\ files = {}

-----------------------------------------------------------------------------
(* C5 *)

\* The ids of the model that contain "ukraine".
RegionalIds == { VarSo2Ukraine, VarUkraineNo2 }

\* C5: in every run of main that reaches the render stage exactly one of
\* plot_data and plot_data_ukraine is called, once, after the profile has
\* been resolved and the grid loaded; it is plot_data_ukraine exactly when
\* the variable id contains "ukraine", plot_data otherwise.
C5_OneRendererByRegionFlag ==
    /\ Len(RendererCalls) <= 1
    /\ (pc \in RenderSteps \/ fig # << >> \/ files # {})
         => Len(RendererCalls) = 1
    /\ RendererCalls # << >> =>
         /\ calls = << "read_file", RendererCalls[1] >>
         /\ conf # Unbound /\ data # Unbound /\ obs_data # Unbound
         /\ latitudes # Unbound /\ longitudes # Unbound
         /\ datetime_start # Unbound /\ figname # Unbound
         /\ (script = NewScript) =>
              ((RendererCalls[1] = "plot_data_ukraine")
                  <=> (options.var \in RegionalIds))
         /\ (script = OldScript) => (RendererCalls[1] = "plot_data")
         /\ (pc \in GlobalRenderSteps) => (RendererCalls[1] = "plot_data")
         /\ (pc \in RegionalRenderSteps)
              => (RendererCalls[1] = "plot_data_ukraine")

\* C5 witness: a finished run with an id that has "ukraine" after a prefix
\* was rendered by the regional renderer, and by it alone.
C5_Witness ==
    /\ pc = "done"
    /\ options.var = VarSo2Ukraine
    /\ calls = << "read_file", "plot_data_ukraine" >>
    /\ files # {}

-----------------------------------------------------------------------------
(* C6 *)

\* A document has a period axis when its input section is keyed by time
\* periods, and is flat when its input section is the block itself.
HasPeriodAxis(doc) == HasKey(doc, "input") /\ DOMAIN doc.input \subseteq TimePeriods

IsFlat(doc) == HasKey(doc, "input") /\ HasKey(doc.input, "path")

\* main has resolved the input path, or has failed doing so.
InputResolved ==
    /\ conf # Unbound
    /\ pc \notin { "main_config", "main_infile", "old_main_infile" }

\* C6 as claimed: the settings come from the block nested under the
\* time-period key when the document has a period axis, and from the flat
\* block when it has none.
C6_NestedOrFlatFallback ==
    (script = NewScript /\ InputResolved) =>
        LET doc == conf[1]
            tp == options.timeperiod
        IN  /\ (HasPeriodAxis(doc) /\ HasKey(doc.input, tp))
                 => infile = Some(FormatPath(doc.input[tp], options.date))
            /\ IsFlat(doc)
                 => infile = Some(FormatPath(doc.input, options.date))

\* C6 as amended: plot_tropomi.py takes the input, plot and output settings
\* from the block nested under the time-period key and from nowhere else; a
\* document without that block (no period axis, or the period missing) ends
\* the run with KeyError at the first lookup, with nothing resolved and
\* nothing written.  plot-tropomi.py, which takes no time period, reads the
\* flat block and ends with KeyError on a period-keyed document.  The
\* outcome is fixed by the document and the key.
C6_NestedBlockOrKeyError ==
    InputResolved =>
        LET doc == conf[1]
            tp == options.timeperiod
        IN  IF script = NewScript
            THEN IF HasPeriodAxis(doc) /\ HasKey(doc.input, tp)
                 THEN /\ infile = Some(FormatPath(doc.input[tp], options.date))
                      /\ datetime_start # Unbound =>
                           datetime_start =
                             Some(dayssince_to_timestamp(doc.input[tp].epochdate,
                                                         data[1].datetime_start))
                      /\ pc \in { "read_file_times", "main_logos" } =>
                           obs_data = Some(ApplyThreshold(Squeeze(data[1].obs),
                                                          doc.plot[tp]))
                      /\ figname # Unbound =>
                           figname = Some(FormatPath(doc.output[tp], options.date))
                 ELSE /\ pc = "crashed" /\ error = "KeyError"
                      /\ infile = Unbound /\ files = {}
            ELSE IF IsFlat(doc)
                 THEN /\ infile = Some(FormatPath(doc.input, options.date))
                      /\ figname # Unbound =>
                           figname = Some(FormatPath(doc.output, options.date))
                 ELSE /\ pc = "crashed" /\ error = "KeyError"
                      /\ infile = Unbound /\ files = {}

\* C6 witness: plot_tropomi.py run with --timeperiod month on a document
\* with a period axis has loaded the grid from the month block.
C6_Witness ==
    /\ script = NewScript
    /\ options.timeperiod = "month"
    /\ conf = Some(KeyedDoc(None, Some(1)))
    /\ infile = Some(FormatPath(InputBlock("in/month", 20100101), "20230209"))
    /\ figname = Some(FormatPath(OutputBlock("out/month"), "20230209"))
    /\ pc = "done"

-----------------------------------------------------------------------------
(* Runs of the regional renderer over every road source of up to MaxRoads  *)
(* records (SpecRoads) and every city list of up to MaxCities rows         *)
(* (SpecLabels).                                                           *)

AllRoads == SeqsUpTo(RoadAttributes, MaxRoads)

AllCities == { CityRows(names) : names \in SeqsUpTo(CityNames, MaxCities) }

RegionalDocs == { KeyedDoc(None, Some(1)) }

RegionalProducts ==
    { HarpProduct(Array(<< 1, 2, 2 >>, << -1, 0, NaN, 1 >>), 2, 2,
                  Days(8341, 169, 5629998), Days(8341, 86222, 0)) }

RegionalInit ==
    /\ script = NewScript
    /\ options \in [ var : { VarSo2Ukraine }, date : { "20230209" },
                     timeperiod : { "day" } ]
    /\ pc = "main_config"
    /\ Blank

RegionalNext(roadSources, citySources) ==
    \/ main_ReadConfigFrom(RegionalDocs)
    \/ main_InFile
    \/ read_file_ImportFrom(RegionalProducts)
    \/ read_file_Extract
    \/ read_file_Threshold
    \/ read_file_Times
    \/ main_Logos
    \/ main_FigName
    \/ main_Render
    \/ ukraine_Extent
    \/ ukraine_Border
    \/ ukraine_RoadsFrom(roadSources)
    \/ ukraine_Mesh
    \/ ukraine_CitiesFrom(citySources)
    \/ ukraine_Labels
    \/ ukraine_Furniture
    \/ ukraine_Save

SpecRoads == RegionalInit /\ [][RegionalNext(AllRoads, SampleCities)]_vars

SpecLabels == RegionalInit /\ [][RegionalNext(SampleRoads, AllCities)]_vars

CallsOfLayer(layer) == SelectSeq(fig, LAMBDA c : c.layer = layer)

-----------------------------------------------------------------------------
(* C7 *)

Annotations == SelectSeq(fig, LAMBDA c : c.op = "annotate")

\* C7: every row of the city list gets exactly one label, at the row's
\* position; the label offset is (10, -20) for "Zaporizhzhia", (10, 13) for
\* "Kyiv" and the default (10, 10) for every other name.
C7_LabelOffsetByName ==
    (city_names # Unbound /\ pc # "ukraine_labels") =>
        LET names == city_names[1]
        IN  /\ Len(Annotations) = Len(names)
            /\ \A k \in 1..Len(names) :
                 /\ Annotations[k].arg.text = names[k]
                 /\ Annotations[k].arg.lon = longitudes[1][k]
                 /\ Annotations[k].arg.lat = latitudes[1][k]
                 /\ Annotations[k].arg.xytext =
                      CASE names[k] = "Zaporizhzhia" -> << 10, -20 >>
                        [] names[k] = "Kyiv" -> << 10, 13 >>
                        [] OTHER -> << 10, 10 >>

\* C7 witness: a finished regional run whose city list holds an override
\* name and an ordinary name, both labelled.
C7_Witness ==
    /\ pc = "done"
    /\ city_names = Some(<< "Kyiv", "Lviv" >>)
    /\ Len(Annotations) = 2
    /\ Annotations[1].arg.xytext = << 10, 13 >>
    /\ Annotations[2].arg.xytext = << 10, 10 >>

-----------------------------------------------------------------------------
(* C8 *)

IsFerryRoute(attributes) ==
    HasKey(attributes, "type") /\ attributes.type = "Ferry Route"

\* C8: a road record is drawn if and only if its type attribute is not
\* "Ferry Route": a ferry record is never drawn, every other record, one
\* with no type attribute included, is drawn exactly once, and all drawn
\* records have the same style.
C8_RoadDrawnIffNotFerry ==
    records # Unbound =>
        LET recs == records[1]
            drawn == CallsOfLayer("roads")
        IN  /\ \A k \in 1..Len(recs) :
                 Cardinality({ j \in 1..Len(drawn) : drawn[j].arg.geometry = k })
                   = IF IsFerryRoute(recs[k]) THEN 0 ELSE 1
            /\ \A j \in 1..Len(drawn) :
                 /\ drawn[j].arg.geometry \in 1..Len(recs)
                 /\ drawn[j].op = "add_geometries"
                 /\ drawn[j].arg.edgecolor = "lightgray"
                 /\ drawn[j].arg.linewidth = 6
                 /\ drawn[j].arg.facecolor = "none"

\* C8 witness: a finished regional run whose road source held a ferry route
\* and a record with no type attribute; only the second was drawn.
C8_Witness ==
    /\ pc = "done"
    /\ records = Some(<< [ type |-> "Ferry Route" ], [ name |-> "unnamed" ] >>)
    /\ Len(CallsOfLayer("roads")) = 1
    /\ CallsOfLayer("roads")[1].arg.geometry = 2

-----------------------------------------------------------------------------
(* C10 *)

\* The position of a layer in the order of section 4.5.
LayerRank(layer) ==
    CASE layer = "extent" -> 1
      [] layer = "border" -> 2
      [] layer = "roads" -> 3
      [] layer = "mesh" -> 4
      [] layer = "coastline" -> 5
      [] layer = "cities" -> 6
      [] layer = "gridlines" -> 7
      [] layer \in { "title", "colorbar", "logos" } -> 8
      [] layer = "save" -> 9

\* C10: the regional renderer issues its layers in the order extent,
\* borders, roads, mesh, coastline, cities, graticule, title/colorbar/logos,
\* save.  In a completed run every layer is there once: one extent, the
\* eight borders in source order, one call per kept road, one mesh drawn
\* with the grid's own longitude and latitude arrays, one coastline, a
\* marker and a label per city, one graticule with the right and top labels
\* off, one title, one colorbar, two logos, and the save as the last call.
C10_LayerOrder ==
    RegionalRun =>
        /\ \A i \in 1..Len(fig) : \A j \in i..Len(fig) :
             LayerRank(fig[i].layer) <= LayerRank(fig[j].layer)
        /\ pc = "done" =>
             /\ Len(CallsOfLayer("extent")) = 1
             /\ [ k \in 1..Len(CallsOfLayer("border")) |->
                    CallsOfLayer("border")[k].arg.geometries ]
                  = [ k \in 1..Len(Countries) |-> << Countries[k] >> ]
             /\ Len(CallsOfLayer("roads"))
                  = Cardinality({ k \in 1..Len(records[1]) :
                                    ~IsFerryRoute(records[1][k]) })
             /\ Len(CallsOfLayer("mesh")) = 1
             /\ CallsOfLayer("mesh")[1].arg.x = data[1].longitude
             /\ CallsOfLayer("mesh")[1].arg.y = data[1].latitude
             /\ CallsOfLayer("mesh")[1].arg.c = obs_data[1]
             /\ Len(CallsOfLayer("coastline")) = 1
             /\ Len(CallsOfLayer("cities")) = 2 * Len(city_names[1])
             /\ CallsOfLayer("gridlines")
                  = << Call("gridlines", "gridlines",
                            [ draw_labels |-> TRUE, right_labels |-> FALSE,
                              top_labels |-> FALSE ]) >>
             /\ Len(CallsOfLayer("title")) = 1
             /\ Len(CallsOfLayer("colorbar")) = 1
             /\ Len(CallsOfLayer("logos")) = 2
             /\ Len(CallsOfLayer("save")) = 1
             /\ fig[Len(fig)].layer = "save"
             /\ files = { figname[1] }

\* C10 witness: a completed regional run with a drawn road and two cities,
\* whose city coordinates have replaced the grid's in the local variables.
C10_Witness ==
    /\ RegionalRun
    /\ pc = "done"
    /\ Len(CallsOfLayer("roads")) = 1
    /\ Len(CallsOfLayer("cities")) = 4
    /\ latitudes # Some(data[1].latitude)

-----------------------------------------------------------------------------
(* C9: runs of the load up to the return of read_file, over epoch dates    *)
(* and pairs of boundary offsets.                                          *)

CodecEpochs == { 20000101, 20100101, 19991231, 20240228, 21000228 }

EpochDoc(epoch) ==
    [ input  |-> [ day |-> InputBlock("in/day", epoch),
                   month |-> InputBlock("in/month", epoch) ],
      output |-> [ day |-> OutputBlock("out/day"),
                   month |-> OutputBlock("out/month") ],
      plot   |-> [ day |-> PlotBlock(None), month |-> PlotBlock(None) ] ]

CodecDocs == { EpochDoc(e) : e \in CodecEpochs }

\* Offsets: the first days, the end of February, a year, the offset of the
\* documented example; midnight, the example's second, the last second of a
\* day; no fraction, the example's fraction, a fraction that rounds up to
\* the next second.
CodecOffsets ==
    { Days(d, s, u) : d \in (0..MaxOffsetDays) \cup { 59, 365, 8341 },
                      s \in { 0, 169, 86399 },
                      u \in { 0, 5629998, 9999995 } }

CodecProducts ==
    { HarpProduct(Array(<< 1, 2, 2 >>, << -1, 0, NaN, 1 >>), 2, 2, t0, t1) :
        t0 \in CodecOffsets, t1 \in CodecOffsets }

CodecInit ==
    /\ script = NewScript
    /\ options \in [ var : { VarSo2Nrti }, date : { "20230209" },
                     timeperiod : { "day" } ]
    /\ pc = "main_config"
    /\ Blank

CodecNext ==
    \/ main_ReadConfigFrom(CodecDocs)
    \/ main_InFile
    \/ read_file_ImportFrom(CodecProducts)
    \/ read_file_Extract
    \/ read_file_Threshold
    \/ read_file_Times

SpecCodec == CodecInit /\ [][CodecNext]_vars

\* d1 <= d2 on days-since values.
DaysLeq(d1, d2) ==
    \/ d1.days < d2.days
    \/ d1.days = d2.days /\ d1.secs < d2.secs
    \/ d1.days = d2.days /\ d1.secs = d2.secs /\ d1.sub <= d2.sub

\* t1 <= t2 on timestamps, field by field as the text "YYYY-MM-DD HH:MM"
\* compares.
TsLeq(t1, t2) ==
    \E k \in 1..6 :
        /\ \A j \in 1..(k - 1) : t1[j] = t2[j]
        /\ (k = 6 \/ t1[k] < t2[k])

MonthLength(y, m) ==
    IF m = 2 THEN (IF (y % 4 = 0) /\ ((y % 100 # 0) \/ (y % 400 = 0)) THEN 29 ELSE 28)
    ELSE IF m \in { 4, 6, 9, 11 } THEN 30 ELSE 31

\* t is a calendar date and time of day, and it lies exactly the whole
\* minutes of d (to the nearest microsecond) after the epoch at 00:00.
IsEpochPlus(epoch, d, t) ==
    LET second == d.secs + (IF d.sub >= 9999995 THEN 1 ELSE 0)
    IN  /\ t[2] \in 1..12
        /\ t[3] \in 1..MonthLength(t[1], t[2])
        /\ t[4] \in 0..23
        /\ t[5] \in 0..59
        /\ (Ymd2ord(t[1], t[2], t[3])
              - Ymd2ord(epoch \div 10000, (epoch \div 100) % 100, epoch % 100)) * 1440
             + t[4] * 60 + t[5]
           = d.days * 1440 + (second \div 60)

\* C9: the two timestamps read_file returns are the epoch plus the offset in
\* days at minute precision; the larger offset never gives the earlier
\* timestamp; offset 0 gives the epoch at 00:00; epoch 20000101 with offset
\* 8341.00196253472 gives 2022-11-02 00:02.
C9_TimestampMonotoneExact ==
    pc = "main_logos" =>
        LET epoch == conf[1].input[options.timeperiod].epochdate
            d0 == data[1].datetime_start
            d1 == data[1].datetime_stop
            t0 == datetime_start[1]
            t1 == datetime_stop[1]
        IN  /\ DaysLeq(d0, d1) => TsLeq(t0, t1)
            /\ DaysLeq(d1, d0) => TsLeq(t1, t0)
            /\ IsEpochPlus(epoch, d0, t0)
            /\ IsEpochPlus(epoch, d1, t1)
            /\ (d0 = Days(0, 0, 0)) =>
                 t0 = << epoch \div 10000, (epoch \div 100) % 100, epoch % 100, 0, 0 >>
            /\ (epoch = 20000101 /\ d0 = Days(8341, 169, 5629998)) =>
                 t0 = << 2022, 11, 2, 0, 2 >>

\* C9 witness: the documented example as the first timestamp, and an offset
\* whose fraction rounds into the next day as the last one.
C9_Witness ==
    /\ pc = "main_logos"
    /\ conf = Some(EpochDoc(20000101))
    /\ data[1].datetime_start = Days(8341, 169, 5629998)
    /\ datetime_start = Some(<< 2022, 11, 2, 0, 2 >>)
    /\ data[1].datetime_stop = Days(8341, 86399, 9999995)
    /\ datetime_stop = Some(<< 2022, 11, 3, 0, 0 >>)


-----------------------------------------------------------------------------
(* C11 *)

\* The grid of the product in hand: (len(lat), len(lon)).
GridShape == << Len(data[1].latitude), Len(data[1].longitude) >>

\* plot_tropomi.py: the array read_file returns, and main hands to the
\* renderer, is the squeezed one (line 54).
SqueezedIsGrid ==
    (script = NewScript /\ obs_data # Unbound) =>
        /\ obs_data[1].shape = GridShape
        /\ Len(obs_data[1].cells) = Len(data[1].obs.cells)

\* plot-tropomi.py: the renderer meshes obs_data[0,:,:] (line 104).
FirstPlaneIsGrid ==
    (script = OldScript /\ pc = "old_plot_data_draw") =>
        /\ CanIndexFirstPlane(obs_data[1])
        /\ FirstPlane(obs_data[1]).shape = GridShape

\* C11: for every observation array of shape (1, n, m) or (n, m), with
\* n = len(lat) >= 1 and m = len(lon) >= 1, the array the renderer draws is
\* 2-D with shape exactly (n, m): only the leading singleton time axis is
\* removed and both spatial axes are kept, also when n or m equals 1.
C11_SqueezeKeepsGridShape == SqueezedIsGrid /\ FirstPlaneIsGrid

=============================================================================
